---- MODULE Spec2Model ----
(***************************************************************************)
(* Model of backend/main.py: the FastAPI service that ingests a document   *)
(* through the unstructured.io pipeline, keeps the extracted content in    *)
(* the process-wide dictionary documents_db and answers questions about a  *)
(* stored document through the Gemini model.                               *)
(*                                                                         *)
(* Every endpoint is an "async def" coroutine, so uvicorn runs all of them *)
(* on ONE event loop.  A coroutine gives the loop back only at an await;   *)
(* the only await of the document endpoints is "await file.read()" in      *)
(* upload_document.  Pipeline(...).run() and model.generate_content() are  *)
(* synchronous calls: the coroutine keeps the loop while it is inside      *)
(* them.  The variable loop holds the request that owns the event loop.    *)
(*                                                                         *)
(* Text (contents, questions, prompts, error details) is a sequence of     *)
(* tokens; concatenation of text is \o.                                    *)
(***************************************************************************)
EXTENDS Integers, Sequences, FiniteSets, TLC

\* ---------------------------------------------------------------- bounds
MaxReq == 3            \* number of HTTP requests in one run

Reqs == 1..MaxReq
NoReq == 0

\* ------------------------------------------------------ input alphabets
Ids == {"u1", "u2"}                       \* values uuid.uuid4() can return
FileNames == {"a.pdf", "b.pdf"}           \* client-supplied file names
Questions == {<<"a", "q1">>, <<"a", "q2">>} \* question texts
Answers == {<<"x">>, <<"y">>}             \* texts the Gemini model returns

Contents == {<<>>, <<"a", "b">>}          \* artifact texts the pipeline writes
Emails == {"ann@x.org", "bob@x.org"}      \* addresses sent to /signup
Passwords == {"pw1", "pw2"}               \* passwords sent to /signup
\* what utils.create_user does: raises, returns nothing, returns a user whose
\* confirmed_at is None, returns a confirmed user
UserOutcomes == {"raised", "no_user", "unconfirmed", "confirmed"}

\* ---------------------------------------------------- program constants
UPLOAD_DIRECTORY == "./uploaded_documents"
OUTPUT_DIRECTORY == "./output"

\* ------------------------------------------------------------ variables
VARIABLES
    documents_db,   \* the dict: sequence of records in insertion order
    files,          \* paths that exist under UPLOAD_DIRECTORY
    output,         \* OUTPUT_DIRECTORY: set of artifacts [path, text]
    issued,         \* ids uuid.uuid4() has returned so far
    loop,           \* request whose coroutine owns the event loop, or NoReq
    pc,             \* position of each request's coroutine
    req,            \* what each request carries
    local,          \* local variables of each request's coroutine
    ext,            \* history: what the collaborators did for each request, the
                    \* asks on the same document in flight when it arrived, and
                    \* how many uploads had succeeded when it read or wrote the dict
    resp            \* HTTP response of each request

vars == <<documents_db, files, output, issued, loop, pc, req, local, ext, resp>>

\* ------------------------------------------------------- dict operations
Keys(db) == {db[i].id : i \in 1..Len(db)}

Lookup(db, id) == db[CHOOSE i \in 1..Len(db) : db[i].id = id]

\* faulty variant: the assignment rebinds the whole dict
DictSetReplaceAll(db, id, rec) == <<rec>>

\* documents_db[id] = rec : a plain assignment, which replaces the value of
\* an existing key in place and appends a new key at the end
DictSet(db, id, rec) ==
    IF id \in Keys(db)
    THEN [i \in 1..Len(db) |-> IF db[i].id = id THEN rec ELSE db[i]]
    ELSE Append(db, rec)

\* ------------------------------------------------------- path operations
\* os.path.join(UPLOAD_DIRECTORY, f"{file_id}_{file.filename}")
UploadPath(file_id, filename) == <<UPLOAD_DIRECTORY, "/", file_id, "_", filename>>

\* faulty variant: the artifact is named after the client's file name alone
BasenameNoId(file_path) == SubSeq(file_path, 5, Len(file_path))

\* os.path.basename(file_path)
Basename(file_path) == SubSeq(file_path, 3, Len(file_path))

\* os.path.join(OUTPUT_DIRECTORY, os.path.basename(file_path)) + '.json'
OutputFile(file_path) == <<OUTPUT_DIRECTORY, "/">> \o Basename(file_path) \o <<".json">>

\* ---------------------------------------------------------------- uuid
\* faulty variant: an id generator that can repeat a value
Uuid4Any(used) == Ids

\* uuid.uuid4(): a random 122-bit value, modelled by its contract: a value
\* that was not returned before
uuid4(used) == Ids \ used

\* ---------------------------------------------------------------- prompt
PromptHead == <<"\n", "Based on the following document content, please answer the question.",
                "\n", "\n", "Document content:", "\n">>
PromptMid  == <<"\n", "\n", "Question: ">>
PromptTail == <<"\n", "\n",
                "Please provide a concise and accurate answer based only on the information provided in the document.",
                "\n">>

\* faulty variant: the content is cut to its first token
BuildPromptTruncated(document_content, query) ==
    PromptHead \o (IF Len(document_content) > 1 THEN <<document_content[1]>> ELSE document_content)
               \o PromptMid \o query \o PromptTail

\* the f-string of query_document_with_gemini
BuildPrompt(document_content, query) ==
    PromptHead \o document_content \o PromptMid \o query \o PromptTail

\* ------------------------------------------------------------- responses
NoText == <<>>

NoResp == [status |-> 0, detail |-> NoText, message |-> "", document_id |-> "none",
           query |-> NoText, response |-> NoText, document |-> "", listing |-> <<>>,
           data |-> NoText]

\* raise HTTPException(status_code=..., detail=...)
HttpError(code, detail) == [NoResp EXCEPT !.status = code, !.detail = detail]

\* JSONResponse of upload_document
UploadResponse(file_id) ==
    [NoResp EXCEPT !.status = 200,
                   !.message = "Document uploaded and processed successfully",
                   !.document_id = file_id]

\* faulty variant: the question is sent back as the answer
AskResponseEcho(query, response, file_name) ==
    [NoResp EXCEPT !.status = 200, !.query = query, !.response = query,
                   !.document = file_name]

\* JSONResponse of ask_question
AskResponse(query, response, file_name) ==
    [NoResp EXCEPT !.status = 200, !.query = query, !.response = response,
                   !.document = file_name]

\* faulty variant: the newest record is listed first
ListingReversed(db) ==
    [i \in 1..Len(db) |-> [document_id |-> db[Len(db) + 1 - i].id,
                           file_name |-> db[Len(db) + 1 - i].file_name]]

\* the list comprehension of list_documents
Listing(db) == [i \in 1..Len(db) |-> [document_id |-> db[i].id, file_name |-> db[i].file_name]]

\* ------------------------------------------------------------------ init
NoRequest == [kind |-> "none", filename |-> "", document_id |-> "none", query |-> NoText,
              email |-> "", password |-> ""]

NoLocal == [file_id |-> "none", file_path |-> NoText, document_content |-> NoText,
            prompt |-> NoText]

NoExt == [pipeline_calls |-> 0, pipeline |-> "none", model_calls |-> 0, model |-> "none",
          reply |-> NoText, overlap |-> {}, opened |-> FALSE, written |-> NoText, seq |-> 0,
          user |-> "none"]

Init ==
    /\ documents_db = <<>>
    /\ files = {}
    /\ output = {}
    /\ issued = {}
    /\ loop = NoReq
    /\ pc = [r \in Reqs |-> "idle"]
    /\ req = [r \in Reqs |-> NoRequest]
    /\ local = [r \in Reqs |-> NoLocal]
    /\ ext = [r \in Reqs |-> NoExt]
    /\ resp = [r \in Reqs |-> NoResp]

\* ------------------------------------------------------------- requests
\* File names, ids and questions are opaque to the code (never compared with a
\* literal, never parsed), so a run is the same run under any renaming of
\* them: clients use the second name, id or question only after the first.
FirstUse(q) ==
    /\ q.filename = "b.pdf" => \E s \in Reqs : req[s].filename = "a.pdf"
    /\ q.document_id = "u2" => \/ "u1" \in issued
                               \/ \E s \in Reqs : req[s].document_id = "u1"
    /\ q.query = <<"a", "q2">> => \E s \in Reqs : req[s].query = <<"a", "q1">>

\* a client sends a request; it waits until the event loop runs its coroutine
Submit(r) ==
    /\ pc[r] = "idle"
    /\ \A s \in Reqs : s < r => pc[s] # "idle"     \* requests are numbered as they arrive
    /\ \E q \in [kind : {"upload"}, filename : FileNames, document_id : {"none"}, query : {NoText},
                  email : {""}, password : {""}]
             \cup [kind : {"ask"}, filename : {""}, document_id : Ids, query : Questions,
                    email : {""}, password : {""}]
             \cup [kind : {"list"}, filename : {""}, document_id : {"none"}, query : {NoText},
                    email : {""}, password : {""}] :
           /\ q.kind = "upload" =>
                  Cardinality({s \in Reqs : req[s].kind = "upload"}) < Cardinality(Ids)
           /\ FirstUse(q)
           /\ req' = [req EXCEPT ![r] = q]
    /\ pc' = [pc EXCEPT ![r] = "pending"]
    /\ ext' = [ext EXCEPT ![r].overlap =
                  {s \in Reqs : /\ req'[r].kind = "ask"
                                /\ pc[s] \notin {"idle", "done"}
                                /\ req[s].kind = "ask"
                                /\ req[s].document_id = req'[r].document_id}]
    /\ UNCHANGED <<documents_db, files, output, issued, loop, local, resp>>

\* ------------------------------------------------------- upload_document
\* lines 137-142 up to the await: the id, the path, open(file_path, "wb")
UploadBegin(r) ==
    /\ loop = NoReq
    /\ pc[r] = "pending"
    /\ req[r].kind = "upload"
    /\ \E file_id \in uuid4(issued) :
         LET file_path == UploadPath(file_id, req[r].filename) IN
         /\ issued' = issued \cup {file_id}
         /\ local' = [local EXCEPT ![r].file_id = file_id, ![r].file_path = file_path]
         /\ \/ \* open() raises: nothing is created
               /\ resp' = [resp EXCEPT ![r] = HttpError(500, <<"OSError">>)]
               /\ pc' = [pc EXCEPT ![r] = "done"]
               /\ files' = files
               /\ ext' = ext
            \/ \* open() creates the file; the coroutine awaits file.read()
               /\ files' = files \cup {file_path}
               /\ pc' = [pc EXCEPT ![r] = "await_read"]
               /\ resp' = resp
               /\ ext' = [ext EXCEPT ![r].opened = TRUE]
    /\ UNCHANGED <<documents_db, output, loop, req>>

\* faulty variant: a failed write removes the file it had created
UploadWriteCleanup(r) ==
    /\ loop = NoReq
    /\ pc[r] = "await_read"
    /\ \/ /\ resp' = [resp EXCEPT ![r] = HttpError(500, <<"OSError">>)]
          /\ pc' = [pc EXCEPT ![r] = "done"]
          /\ files' = files \ {local[r].file_path}
          /\ UNCHANGED <<loop, ext>>
       \/ /\ pc' = [pc EXCEPT ![r] = "in_pipeline"]
          /\ loop' = r
          /\ ext' = [ext EXCEPT ![r].pipeline_calls = @ + 1]
          /\ resp' = resp
          /\ files' = files
    /\ UNCHANGED <<documents_db, output, issued, req, local>>

\* line 142 after the await, then line 144 enters Pipeline(...).run()
UploadWrite(r) ==
    /\ loop = NoReq
    /\ pc[r] = "await_read"
    /\ \/ \* file.read() or f.write() raises
          /\ resp' = [resp EXCEPT ![r] = HttpError(500, <<"OSError">>)]
          /\ pc' = [pc EXCEPT ![r] = "done"]
          /\ UNCHANGED <<loop, ext>>
       \/ \* the bytes are written; the synchronous pipeline call starts
          /\ pc' = [pc EXCEPT ![r] = "in_pipeline"]
          /\ loop' = r
          /\ ext' = [ext EXCEPT ![r].pipeline_calls = @ + 1]
          /\ resp' = resp
    /\ UNCHANGED <<documents_db, files, output, issued, req, local>>

\* the uploads that have answered 200 so far
Completed ==
    Cardinality({u \in Reqs : req[u].kind = "upload" /\ pc[u] = "done" /\ resp[u].status = 200})

\* lines 84-88: the text of the artifact, or "" when it does not exist
ReadOutput(out, file_path) ==
    IF \E a \in out : a.path = OutputFile(file_path)
    THEN (CHOOSE a \in out : a.path = OutputFile(file_path)).text
    ELSE NoText

\* the uploader of the pipeline writes (or rewrites) the artifact
WriteOutput(out, file_path, text) ==
    {a \in out : a.path # OutputFile(file_path)}
        \cup {[path |-> OutputFile(file_path), text |-> text]}

\* lines 146-155: the record is stored and the success response returned
UploadCommit(r, db, processed_content) ==
    /\ documents_db' = DictSet(db, local[r].file_id,
                               [id |-> local[r].file_id,
                                file_name |-> req[r].filename,
                                file_path |-> local[r].file_path,
                                content |-> processed_content])
    /\ local' = [local EXCEPT ![r].document_content = processed_content]
    /\ resp' = [resp EXCEPT ![r] = UploadResponse(local[r].file_id)]

\* faulty variant: the record is stored even when the pipeline raised
PipelineReturnPartial(r) ==
    /\ pc[r] = "in_pipeline"
    /\ loop = r
    /\ \/ /\ ext' = [ext EXCEPT ![r].pipeline = "raised"]
          /\ output' = output
          /\ local' = local
          /\ documents_db' = DictSet(documents_db, local[r].file_id,
                                     [id |-> local[r].file_id,
                                      file_name |-> req[r].filename,
                                      file_path |-> local[r].file_path,
                                      content |-> NoText])
          /\ resp' = [resp EXCEPT ![r] =
                        HttpError(500, <<"Error processing document: ", "pipeline error">>)]
       \/ \E text \in Contents :
             /\ ext' = [ext EXCEPT ![r].pipeline = "artifact", ![r].written = text,
                                   ![r].seq = Completed + 1]
             /\ output' = WriteOutput(output, local[r].file_path, text)
             /\ UploadCommit(r, documents_db, ReadOutput(output', local[r].file_path))
       \/ /\ ext' = [ext EXCEPT ![r].pipeline = "no_artifact", ![r].seq = Completed + 1]
          /\ output' = output
          /\ UploadCommit(r, documents_db, ReadOutput(output, local[r].file_path))
    /\ pc' = [pc EXCEPT ![r] = "done"]
    /\ loop' = NoReq
    /\ UNCHANGED <<files, issued, req>>

\* Pipeline(...).run() returns or raises; lines 81-90, 146-157
PipelineReturn(r) ==
    /\ pc[r] = "in_pipeline"
    /\ loop = r
    /\ \/ \* the pipeline raises: line 90 wraps, line 157 answers 500
          /\ ext' = [ext EXCEPT ![r].pipeline = "raised"]
          /\ resp' = [resp EXCEPT ![r] =
                        HttpError(500, <<"Error processing document: ", "pipeline error">>)]
          /\ UNCHANGED <<documents_db, output, local>>
       \/ \* the pipeline writes the artifact
          \E text \in Contents :
             /\ ext' = [ext EXCEPT ![r].pipeline = "artifact", ![r].written = text,
                                   ![r].seq = Completed + 1]
             /\ output' = WriteOutput(output, local[r].file_path, text)
             /\ UploadCommit(r, documents_db, ReadOutput(output', local[r].file_path))
       \/ \* the pipeline returns without having written the artifact
          /\ ext' = [ext EXCEPT ![r].pipeline = "no_artifact", ![r].seq = Completed + 1]
          /\ output' = output
          /\ UploadCommit(r, documents_db, ReadOutput(output, local[r].file_path))
    /\ pc' = [pc EXCEPT ![r] = "done"]
    /\ loop' = NoReq
    /\ UNCHANGED <<files, issued, req>>

\* ---------------------------------------------------------- ask_question
\* faulty variant: the model is invoked before the lookup
AskBeginNoCheck(r) ==
    /\ loop = NoReq
    /\ pc[r] = "pending"
    /\ req[r].kind = "ask"
    /\ ext' = [ext EXCEPT ![r].model_calls = @ + 1]
    /\ IF req[r].document_id \notin Keys(documents_db)
       THEN /\ resp' = [resp EXCEPT ![r] = HttpError(404, <<"Document not found">>)]
            /\ pc' = [pc EXCEPT ![r] = "done"]
            /\ UNCHANGED <<loop, local>>
       ELSE LET document_content == Lookup(documents_db, req[r].document_id).content IN
            /\ local' = [local EXCEPT ![r].document_content = document_content,
                                      ![r].prompt = BuildPrompt(document_content, req[r].query)]
            /\ pc' = [pc EXCEPT ![r] = "in_model"]
            /\ loop' = r
            /\ resp' = resp
    /\ UNCHANGED <<documents_db, files, output, issued, req>>

\* faulty variant: a document without content is treated as missing
AskBeginRejectEmpty(r) ==
    /\ loop = NoReq
    /\ pc[r] = "pending"
    /\ req[r].kind = "ask"
    /\ IF \/ req[r].document_id \notin Keys(documents_db)
          \/ Lookup(documents_db, req[r].document_id).content = NoText
       THEN /\ resp' = [resp EXCEPT ![r] = HttpError(404, <<"Document not found">>)]
            /\ pc' = [pc EXCEPT ![r] = "done"]
            /\ UNCHANGED <<loop, local, ext>>
       ELSE LET document_content == Lookup(documents_db, req[r].document_id).content IN
            /\ local' = [local EXCEPT ![r].document_content = document_content,
                                      ![r].prompt = BuildPrompt(document_content, req[r].query)]
            /\ ext' = [ext EXCEPT ![r].model_calls = @ + 1]
            /\ pc' = [pc EXCEPT ![r] = "in_model"]
            /\ loop' = r
            /\ resp' = resp
    /\ UNCHANGED <<documents_db, files, output, issued, req>>

\* faulty variant: an answer already given to the same question on the same
\* document is served again without asking the model
AskBeginCached(r) ==
    /\ loop = NoReq
    /\ pc[r] = "pending"
    /\ req[r].kind = "ask"
    /\ LET hits == {b \in Reqs : /\ req[b].kind = "ask" /\ pc[b] = "done"
                                 /\ resp[b].status = 200
                                 /\ req[b].document_id = req[r].document_id
                                 /\ req[b].query = req[r].query}
       IN IF req[r].document_id \notin Keys(documents_db)
          THEN /\ resp' = [resp EXCEPT ![r] = HttpError(404, <<"Document not found">>)]
               /\ pc' = [pc EXCEPT ![r] = "done"]
               /\ UNCHANGED <<loop, local, ext>>
          ELSE IF hits # {}
          THEN /\ resp' = [resp EXCEPT ![r] = resp[CHOOSE b \in hits : TRUE]]
               /\ pc' = [pc EXCEPT ![r] = "done"]
               /\ UNCHANGED <<loop, local, ext>>
          ELSE LET document_content == Lookup(documents_db, req[r].document_id).content IN
               /\ local' = [local EXCEPT ![r].document_content = document_content,
                                         ![r].prompt = BuildPrompt(document_content, req[r].query)]
               /\ ext' = [ext EXCEPT ![r].model_calls = @ + 1]
               /\ pc' = [pc EXCEPT ![r] = "in_model"]
               /\ loop' = r
               /\ resp' = resp
    /\ UNCHANGED <<documents_db, files, output, issued, req>>

\* lines 162-167 and 94-108: the lookup, the prompt, entering generate_content
AskBegin(r) ==
    /\ loop = NoReq
    /\ pc[r] = "pending"
    /\ req[r].kind = "ask"
    /\ IF req[r].document_id \notin Keys(documents_db)
       THEN /\ resp' = [resp EXCEPT ![r] = HttpError(404, <<"Document not found">>)]
            /\ pc' = [pc EXCEPT ![r] = "done"]
            /\ UNCHANGED <<loop, local, ext>>
       ELSE LET document_content == Lookup(documents_db, req[r].document_id).content IN
            /\ local' = [local EXCEPT ![r].document_content = document_content,
                                      ![r].prompt = BuildPrompt(document_content, req[r].query)]
            /\ ext' = [ext EXCEPT ![r].model_calls = @ + 1]
            /\ pc' = [pc EXCEPT ![r] = "in_model"]
            /\ loop' = r
            /\ resp' = resp
    /\ UNCHANGED <<documents_db, files, output, issued, req>>

\* the reply texts are opaque to the code too: the first reply is "x"
FirstReply(text) == text = <<"y">> => \E s \in Reqs : ext[s].reply = <<"x">>

\* faulty variant: a failed model call is tried a second time
AskModelReturnRetry(r) ==
    /\ pc[r] = "in_model"
    /\ loop = r
    /\ \/ /\ \E text \in Answers :
                /\ FirstReply(text)
                /\ ext' = [ext EXCEPT ![r].model = "ok", ![r].reply = text]
                /\ resp' = [resp EXCEPT ![r] =
                              AskResponse(req[r].query, text,
                                          Lookup(documents_db, req[r].document_id).file_name)]
          /\ pc' = [pc EXCEPT ![r] = "done"]
          /\ loop' = NoReq
       \/ /\ ext[r].model_calls = 1
          /\ ext' = [ext EXCEPT ![r].model = "raised", ![r].model_calls = @ + 1]
          /\ UNCHANGED <<resp, pc, loop>>
       \/ /\ ext[r].model_calls > 1
          /\ ext' = [ext EXCEPT ![r].model = "raised"]
          /\ resp' = [resp EXCEPT ![r] =
                        HttpError(500, <<"Error processing query with Gemini: ", "model error">>)]
          /\ pc' = [pc EXCEPT ![r] = "done"]
          /\ loop' = NoReq
    /\ UNCHANGED <<documents_db, files, output, issued, req, local>>

\* faulty variant: the question is kept in a variable shared by all requests
AskModelReturnShared(r) ==
    /\ pc[r] = "in_model"
    /\ loop = r
    /\ LET latest == CHOOSE s \in Reqs :
                        /\ req[s].kind = "ask"
                        /\ \A t \in Reqs : req[t].kind = "ask" => t <= s
       IN \/ \E text \in Answers :
                /\ FirstReply(text)
                /\ ext' = [ext EXCEPT ![r].model = "ok", ![r].reply = text]
                /\ resp' = [resp EXCEPT ![r] =
                              AskResponse(req[latest].query, text,
                                          Lookup(documents_db, req[r].document_id).file_name)]
          \/ /\ ext' = [ext EXCEPT ![r].model = "raised"]
             /\ resp' = [resp EXCEPT ![r] =
                           HttpError(500, <<"Error processing query with Gemini: ", "model error">>)]
    /\ pc' = [pc EXCEPT ![r] = "done"]
    /\ loop' = NoReq
    /\ UNCHANGED <<documents_db, files, output, issued, req, local>>

\* generate_content returns or raises; lines 108-111 and 169-175
AskModelReturn(r) ==
    /\ pc[r] = "in_model"
    /\ loop = r
    /\ \/ \E text \in Answers :
             /\ FirstReply(text)
             /\ ext' = [ext EXCEPT ![r].model = "ok", ![r].reply = text]
             /\ resp' = [resp EXCEPT ![r] =
                           AskResponse(req[r].query, text,
                                       Lookup(documents_db, req[r].document_id).file_name)]
       \/ /\ ext' = [ext EXCEPT ![r].model = "raised"]
          /\ resp' = [resp EXCEPT ![r] =
                        HttpError(500, <<"Error processing query with Gemini: ", "model error">>)]
    /\ pc' = [pc EXCEPT ![r] = "done"]
    /\ loop' = NoReq
    /\ UNCHANGED <<documents_db, files, output, issued, req, local>>

\* -------------------------------------------------------- list_documents
\* faulty variant: listing empties the dict
ListDocumentsDrain(r) ==
    /\ loop = NoReq
    /\ pc[r] = "pending"
    /\ req[r].kind = "list"
    /\ resp' = [resp EXCEPT ![r] = [NoResp EXCEPT !.status = 200,
                                                  !.listing = Listing(documents_db)]]
    /\ pc' = [pc EXCEPT ![r] = "done"]
    /\ ext' = [ext EXCEPT ![r].seq = Completed]
    /\ documents_db' = <<>>
    /\ UNCHANGED <<files, output, issued, loop, req, local>>

\* lines 178-183
ListDocuments(r) ==
    /\ loop = NoReq
    /\ pc[r] = "pending"
    /\ req[r].kind = "list"
    /\ resp' = [resp EXCEPT ![r] = [NoResp EXCEPT !.status = 200,
                                                  !.listing = Listing(documents_db)]]
    /\ pc' = [pc EXCEPT ![r] = "done"]
    /\ ext' = [ext EXCEPT ![r].seq = Completed]
    /\ UNCHANGED <<documents_db, files, output, issued, loop, req, local>>

\* -------------------------------------------------------- specification
Next ==
    \E r \in Reqs :
        \/ Submit(r)
        \/ UploadBegin(r)
        \/ UploadWrite(r)
        \/ PipelineReturn(r)
        \/ AskBegin(r)
        \/ AskModelReturn(r)
        \/ ListDocuments(r)

Spec == Init /\ [][Next]_vars

\* ---------------------------------------------------------------- sign_up
\* a client sends POST /signup
SubmitSignup(r) ==
    /\ pc[r] = "idle"
    /\ \A s \in Reqs : s < r => pc[s] # "idle"
    /\ \E e \in Emails, p \in Passwords :
          req' = [req EXCEPT ![r] = [NoRequest EXCEPT !.kind = "signup", !.email = e,
                                                     !.password = p]]
    /\ pc' = [pc EXCEPT ![r] = "pending"]
    /\ UNCHANGED <<documents_db, files, output, issued, loop, local, ext, resp>>

\* str() of an HTTPException: "{status_code}: {detail}"
HttpStr(code, detail) == <<ToString(code), ": ">> \o detail

\* lines 117-129, the try block: what it returns, or the text str(e) of the
\* exception it raises (the HTTPException of line 120 is an Exception)
SignUpTry(user, email) ==
    IF user = "raised"
    THEN [raised |-> TRUE, text |-> <<"create_user error">>, value |-> NoResp]
    ELSE IF user \in {"no_user", "unconfirmed"}
    THEN [raised |-> TRUE, text |-> HttpStr(400, <<"User creation failed.">>), value |-> NoResp]
    ELSE [raised |-> FALSE, text |-> NoText,
          value |-> [NoResp EXCEPT !.status = 200, !.message = "User created successfully",
                                   !.data = <<"id", email, "created_at">>]]

\* sign_up, lines 115-132: "except Exception" turns whatever the try block
\* raised into HTTPException(500, str(e))
SignUp(r) ==
    /\ loop = NoReq
    /\ pc[r] = "pending"
    /\ req[r].kind = "signup"
    /\ \E user \in UserOutcomes :
          LET try == SignUpTry(user, req[r].email) IN
          /\ ext' = [ext EXCEPT ![r].user = user]
          /\ resp' = [resp EXCEPT ![r] =
                        IF try.raised THEN HttpError(500, try.text) ELSE try.value]
    /\ pc' = [pc EXCEPT ![r] = "done"]
    /\ UNCHANGED <<documents_db, files, output, issued, loop, req, local>>

\* /signup shares no state with the document endpoints
NextSignup == \E r \in Reqs : SubmitSignup(r) \/ SignUp(r)

SpecSignup == Init /\ [][NextSignup]_vars

\* The event loop runs a coroutine that is ready: a request that waits for the
\* loop gets it once the loop is free.  Nothing in the code bounds the time
\* Pipeline(...).run() or generate_content() takes (no timeout argument, no
\* wait_for), so their return is not a fair step.
SpecFair ==
    /\ Spec
    /\ \A r \in Reqs : /\ WF_vars(UploadBegin(r))
                       /\ WF_vars(UploadWrite(r))
                       /\ WF_vars(AskBegin(r))
                       /\ WF_vars(ListDocuments(r))

\* ------------------------------------------------------------ vocabulary
IsUpload(r) == req[r].kind = "upload"
IsAsk(r)    == req[r].kind = "ask"
IsList(r)   == req[r].kind = "list"
Done(r)     == pc[r] = "done"

\* an /upload that generated id has completed successfully
Ingested(id) ==
    \E u \in Reqs : IsUpload(u) /\ Done(u) /\ resp[u].status = 200 /\ local[u].file_id = id

\* t occurs in s as a contiguous run starting at position i
OccursAt(t, s, i) ==
    /\ i >= 1
    /\ i + Len(t) - 1 <= Len(s)
    /\ \A k \in 1..Len(t) : s[i + k - 1] = t[k]

\* a request that can be given the event loop
Handle(s) == UploadBegin(s) \/ AskBegin(s) \/ ListDocuments(s)

\* ------------------------------------------------------------------- C1
\* C1: a document id is in the store (listed by GET /documents, accepted by
\* /ask) exactly when an /upload that generated it completed successfully;
\* the id of a failed upload is never stored, listed or answered.
C1_StoredIffIngested ==
    /\ \A id \in Ids : id \in Keys(documents_db) <=> Ingested(id)
    /\ \A u \in Reqs : IsUpload(u) /\ Done(u) /\ resp[u].status # 200
            => local[u].file_id \notin Keys(documents_db)
    /\ \A l \in Reqs : IsList(l) /\ Done(l)
            => \A i \in 1..Len(resp[l].listing) : Ingested(resp[l].listing[i].document_id)
    /\ \A a \in Reqs : IsAsk(a) /\ (pc[a] = "in_model" \/ (Done(a) /\ resp[a].status # 404))
            => Ingested(req[a].document_id)

C1_Witness ==
    \E u, f, l \in Reqs :
        /\ IsUpload(u) /\ Done(u) /\ resp[u].status = 200
        /\ IsUpload(f) /\ Done(f) /\ ext[f].pipeline = "raised" /\ resp[f].status = 500
        /\ IsList(l) /\ Done(l) /\ Len(resp[l].listing) = 1
        /\ resp[l].listing[1].document_id = local[u].file_id

\* ------------------------------------------------------------------- C2
\* C2: an /ask whose document_id is not a key of the store when the handler
\* runs ends with status 404, and the generative model is never invoked for it.
C2_UnknownIdNotFound ==
    /\ [](\A a \in Reqs : IsAsk(a) /\ Done(a) /\ resp[a].status = 404
              => ext[a].model_calls = 0 /\ ext[a].model = "none")
    /\ [][\A a \in Reqs :
             ( /\ IsAsk(a) /\ pc[a] = "pending" /\ pc'[a] # "pending"
               /\ req[a].document_id \notin Keys(documents_db) )
             => /\ pc'[a] = "done"
                /\ resp'[a].status = 404
                /\ ext'[a].model_calls = 0]_vars

C2_Witness ==
    \E a, u \in Reqs :
        /\ IsAsk(a) /\ Done(a) /\ resp[a].status = 404 /\ ext[a].model_calls = 0
        /\ IsUpload(u) /\ Done(u) /\ resp[u].status = 200
        /\ req[a].document_id # local[u].file_id

\* ------------------------------------------------------------------- C3
\* C3: when the partitioning pipeline raises, or returns without having
\* produced the output artifact, /upload answers with a failure carrying a
\* message and no record for the generated id is stored.
C3_NoArtifactFailsIngestion ==
    \A u \in Reqs : IsUpload(u) /\ Done(u) /\ ext[u].pipeline \in {"raised", "no_artifact"}
        => /\ resp[u].status = 500
           /\ resp[u].detail # NoText
           /\ local[u].file_id \notin Keys(documents_db)

\* ------------------------------------------------------------------- C4
\* C4: every /upload gets an id different from every id issued before it,
\* each key of the store has one record, and an insert adds a new key: it
\* never lands on a key that is already there.
C4_FreshIds ==
    /\ [](\A u, v \in Reqs : u # v /\ local[u].file_id # "none" /\ local[v].file_id # "none"
              => local[u].file_id # local[v].file_id)
    /\ [](Cardinality(Keys(documents_db)) = Len(documents_db))
    /\ [][documents_db' # documents_db
             => /\ Len(documents_db') = Len(documents_db) + 1
                /\ documents_db'[Len(documents_db')].id \notin Keys(documents_db)]_vars

C4_Witness ==
    \E u, v \in Reqs :
        /\ u # v
        /\ IsUpload(u) /\ Done(u) /\ resp[u].status = 200
        /\ IsUpload(v) /\ Done(v) /\ resp[v].status = 200
        /\ resp[u].document_id # resp[v].document_id
        /\ Len(documents_db) = 2

\* ------------------------------------------------------------------- C5
\* C5: an /ask on a stored document whose model call succeeds answers with
\* status 200 and exactly the question as submitted, the model's text
\* unchanged and the file name stored for that document.
C5_AskRelaysAnswer ==
    \A a \in Reqs : IsAsk(a) /\ Done(a) /\ ext[a].model = "ok"
        => /\ resp[a].status = 200
           /\ resp[a].query = req[a].query
           /\ resp[a].response = ext[a].reply
           /\ \E u \in Reqs : /\ IsUpload(u) /\ local[u].file_id = req[a].document_id
                              /\ resp[a].document = req[u].filename
           /\ resp[a].detail = NoText /\ resp[a].message = ""
           /\ resp[a].document_id = "none" /\ resp[a].listing = <<>>

C5_Witness ==
    \E a \in Reqs : /\ IsAsk(a) /\ Done(a) /\ ext[a].model = "ok"
                    /\ resp[a].response = <<"x">> /\ resp[a].document = "b.pdf"
                    /\ Len(documents_db) = 2

\* ------------------------------------------------------------------- C6
\* C6: the prompt given to the model holds the whole stored content and the
\* whole question as contiguous runs, the content ending before the question
\* starts.
C6_PromptHoldsContentAndQuestion ==
    \A a \in Reqs : IsAsk(a) /\ ext[a].model_calls > 0
        => \E i \in 1..(Len(local[a].prompt) + 1) :
              /\ OccursAt(Lookup(documents_db, req[a].document_id).content, local[a].prompt, i)
              /\ i > Len(PromptHead)
              /\ \E j \in i..(Len(local[a].prompt) + 1) :
                    /\ OccursAt(req[a].query, local[a].prompt, j)
                    /\ i + Len(Lookup(documents_db, req[a].document_id).content) <= j
                    /\ j + Len(req[a].query) + Len(PromptTail) - 1 = Len(local[a].prompt)

C6_Witness ==
    \E a \in Reqs : /\ IsAsk(a) /\ ext[a].model_calls > 0
                    /\ Len(Lookup(documents_db, req[a].document_id).content) = 2
                    /\ Len(req[a].query) = 2

\* ------------------------------------------------------------------- C7
\* C7: a record that is in the store stays in the store with the same
\* file_name, file_path and content across every step.
C7_RecordsImmutable ==
    [][\A id \in Keys(documents_db) :
          /\ id \in Keys(documents_db')
          /\ Lookup(documents_db', id) = Lookup(documents_db, id)]_vars

C7_Witness ==
    /\ Len(documents_db) = 2
    /\ \E a \in Reqs : IsAsk(a) /\ Done(a) /\ req[a].document_id = documents_db[1].id
                       /\ resp[a].status # 404

\* ------------------------------------------------------------------- C8
\* C8: when the model call of an /ask on a stored document fails, the request
\* ends with status 500, the model was invoked once for it, and the step
\* leaves the store as it was.
C8_ModelFailureIs500 ==
    /\ [](\A a \in Reqs : IsAsk(a) /\ ext[a].model = "raised"
              => Done(a) /\ resp[a].status = 500 /\ ext[a].model_calls = 1)
    /\ [][\A a \in Reqs : pc[a] = "in_model" /\ ext'[a].model = "raised"
              => /\ pc'[a] = "done"
                 /\ resp'[a].status = 500
                 /\ ext'[a].model_calls = 1
                 /\ documents_db' = documents_db]_vars

C8_Witness ==
    \E a \in Reqs : /\ IsAsk(a) /\ Done(a) /\ ext[a].model = "raised"
                    /\ resp[a].status = 500
                    /\ req[a].document_id \in Keys(documents_db)

\* ------------------------------------------------------------------- C9
\* C9: two /ask requests on the same stored document that are in flight
\* together and whose model calls return both succeed; each response carries
\* the question of its own request and the text the model returned to its own
\* call, made with the prompt built from its own question.
C9_ConcurrentAsksIndependent ==
    \A a, b \in Reqs :
        ( /\ b \in ext[a].overlap
          /\ Done(a) /\ Done(b)
          /\ ext[a].model = "ok" /\ ext[b].model = "ok" )
        => /\ resp[a].status = 200 /\ resp[b].status = 200
           /\ resp[a].query = req[a].query /\ resp[b].query = req[b].query
           /\ resp[a].response = ext[a].reply /\ resp[b].response = ext[b].reply
           /\ \E i \in 1..Len(local[a].prompt) : OccursAt(req[a].query, local[a].prompt, i)
           /\ \E i \in 1..Len(local[b].prompt) : OccursAt(req[b].query, local[b].prompt, i)
           /\ req[a].query # req[b].query
                => /\ resp[a].query # resp[b].query
                   /\ local[a].prompt # local[b].prompt

C9_Witness ==
    \E a, b \in Reqs :
        /\ b \in ext[a].overlap
        /\ Done(a) /\ Done(b)
        /\ resp[a].status = 200 /\ resp[b].status = 200
        /\ req[a].query # req[b].query
        /\ resp[a].response # resp[b].response

\* ------------------------------------------------------------------ C10
\* C10: while one request is inside its external call (the pipeline or the
\* model), any other request that is waiting can be handled.
C10_OthersNotStalled ==
    \A r, s \in Reqs :
        r # s /\ pc[r] \in {"in_pipeline", "in_model"} /\ pc[s] = "pending"
            => ENABLED Handle(s)

\* ------------------------------------------------------------------ C11
\* C11: every request that was accepted eventually ends with a response; none
\* stays held by an external call for ever.
C11_EveryRequestEnds ==
    \A r \in Reqs : (pc[r] # "idle") ~> (pc[r] = "done")

\* ------------------------------------------------------------------ C12
\* the pairs of a listing, as a set
PairSet(listing) == {listing[i] : i \in 1..Len(listing)}

\* C12: two GET /documents answered with no upload succeeding between them
\* return the same set of (document_id, file_name) pairs, whatever else ran
\* in between, and answering GET /documents leaves the store as it was.
C12_ListingStable ==
    /\ [](\A k, l \in Reqs :
              ( /\ IsList(k) /\ Done(k) /\ IsList(l) /\ Done(l)
                /\ ext[k].seq = ext[l].seq )
              => PairSet(resp[k].listing) = PairSet(resp[l].listing))
    /\ [][\A l \in Reqs : IsList(l) /\ pc[l] = "pending" /\ pc'[l] = "done"
              => documents_db' = documents_db]_vars

C12_Witness ==
    \E k, l \in Reqs :
        /\ k # l
        /\ IsList(k) /\ Done(k) /\ IsList(l) /\ Done(l)
        /\ ext[k].seq = 1 /\ ext[l].seq = 1
        /\ Len(resp[k].listing) = 1 /\ Len(resp[l].listing) = 1

\* ------------------------------------------------------------------ C13
\* an upload whose pipeline wrote an artifact without text produced id
EmptyDoc(id) ==
    \E u \in Reqs : /\ IsUpload(u) /\ Done(u) /\ local[u].file_id = id
                     /\ ext[u].pipeline = "artifact" /\ ext[u].written = NoText

\* C13: an upload for which the pipeline succeeds with empty content succeeds:
\* it answers 200 with its id, the record is stored with content "", and an
\* /ask handled afterwards invokes the model and relays its text unchanged.
C13_EmptyContentIngested ==
    /\ [](\A u \in Reqs :
              ( /\ IsUpload(u) /\ Done(u)
                /\ ext[u].pipeline = "artifact" /\ ext[u].written = NoText )
              => /\ resp[u].status = 200
                 /\ resp[u].document_id = local[u].file_id
                 /\ local[u].file_id \in Keys(documents_db)
                 /\ Lookup(documents_db, local[u].file_id).content = NoText)
    /\ [](\A a \in Reqs :
              IsAsk(a) /\ Done(a) /\ ext[a].model = "ok" /\ EmptyDoc(req[a].document_id)
              => resp[a].status = 200 /\ resp[a].response = ext[a].reply)
    /\ [][\A a \in Reqs :
              ( /\ IsAsk(a) /\ pc[a] = "pending" /\ pc'[a] # "pending"
                /\ EmptyDoc(req[a].document_id) )
              => /\ pc'[a] = "in_model"
                 /\ ext'[a].model_calls = 1
                 /\ local'[a].prompt = PromptHead \o PromptMid \o req[a].query \o PromptTail]_vars

C13_Witness ==
    \E u, a \in Reqs :
        /\ IsUpload(u) /\ Done(u) /\ ext[u].pipeline = "artifact" /\ ext[u].written = NoText
        /\ IsAsk(a) /\ Done(a) /\ req[a].document_id = local[u].file_id
        /\ resp[a].status = 200 /\ resp[a].response = <<"x">>

\* ------------------------------------------------------------------ C14
\* the uploads that answered 200
Succeeded == {u \in Reqs : IsUpload(u) /\ Done(u) /\ resp[u].status = 200}

\* C14: every successful upload has its own record under its own id, with its
\* own client file name, the path UPLOAD_DIRECTORY/{id}_{fileName} and the
\* content its own pipeline run produced; the store holds as many records as
\* uploads succeeded, and no two uploads share a stored file or an artifact,
\* also when they carry the same file name.
C14_UploadsDisjoint ==
    /\ Len(documents_db) = Cardinality(Succeeded)
    /\ \A u \in Succeeded :
          /\ local[u].file_id \in Keys(documents_db)
          /\ Lookup(documents_db, local[u].file_id) =
                [id |-> resp[u].document_id,
                 file_name |-> req[u].filename,
                 file_path |-> <<UPLOAD_DIRECTORY, "/", resp[u].document_id, "_", req[u].filename>>,
                 content |-> IF ext[u].pipeline = "artifact" THEN ext[u].written ELSE NoText]
          /\ Lookup(documents_db, local[u].file_id).file_path \in files
          /\ ext[u].pipeline = "artifact"
                => \E a \in output : /\ a.path = OutputFile(local[u].file_path)
                                     /\ a.text = ext[u].written
    /\ \A u, v \in Reqs :
          u # v /\ local[u].file_id # "none" /\ local[v].file_id # "none"
            => /\ local[u].file_path # local[v].file_path
               /\ OutputFile(local[u].file_path) # OutputFile(local[v].file_path)

C14_Witness ==
    \E u, v \in Succeeded :
        /\ u # v
        /\ req[u].filename = req[v].filename
        /\ ext[u].pipeline = "artifact" /\ ext[v].pipeline = "artifact"
        /\ ext[u].written # ext[v].written
        /\ Len(documents_db) = 2

\* ------------------------------------------------------------------ C15
\* C15: GET /documents returns one (document_id, file_name) pair for each
\* upload that had succeeded when it was answered and nothing else, the i-th
\* pair being that of the i-th upload to succeed.
C15_ListingInInsertionOrder ==
    \A l \in Reqs : IsList(l) /\ Done(l)
        => /\ resp[l].status = 200
           /\ Len(resp[l].listing) = ext[l].seq
           /\ \A i \in 1..Len(resp[l].listing) :
                 \E u \in Succeeded :
                     /\ ext[u].seq = i
                     /\ resp[l].listing[i] = [document_id |-> resp[u].document_id,
                                              file_name |-> req[u].filename]

C15_Witness ==
    \E l \in Reqs : /\ IsList(l) /\ Done(l)
                    /\ Len(resp[l].listing) = 2
                    /\ resp[l].listing[1].file_name # resp[l].listing[2].file_name

\* ------------------------------------------------------------------ C16
\* the path f"{file_id}_{file.filename}" under UPLOAD_DIRECTORY of upload u
StoredFile(u) == <<UPLOAD_DIRECTORY, "/", local[u].file_id, "_", req[u].filename>>

\* C16 as claimed: whenever an /upload has ended, in success or in any
\* failure, its file {generatedId}_{originalFileName} exists in the upload
\* directory.
C16_FileAlwaysLeft ==
    \A u \in Reqs : IsUpload(u) /\ Done(u) => StoredFile(u) \in files

\* C16 amended: whenever an /upload whose open() created the file has ended,
\* in success or in failure of the later write or of the pipeline, the file
\* exists; when open() itself raised, the request ends with status 500 and
\* no such file; and no step ever removes a file of the upload directory.
C16_FileLeftOnceCreated ==
    /\ [](\A u \in Reqs : IsUpload(u) /\ Done(u) /\ ext[u].opened
              => StoredFile(u) \in files)
    /\ [](\A u \in Reqs : IsUpload(u) /\ Done(u) /\ ~ext[u].opened
              => resp[u].status = 500 /\ StoredFile(u) \notin files)
    /\ [][files \subseteq files']_vars

C16_Witness ==
    \E u, v \in Reqs :
        /\ IsUpload(u) /\ Done(u) /\ ext[u].opened
        /\ resp[u].status = 500 /\ ext[u].pipeline_calls = 0
        /\ StoredFile(u) \in files
        /\ IsUpload(v) /\ Done(v) /\ ext[v].pipeline = "raised"
        /\ StoredFile(v) \in files

\* ------------------------------------------------------------------ C17
\* C17: an /ask, whatever its outcome, changes neither the store, nor the
\* directories, nor anything of another request; every /ask that found its
\* document called the model once, with the prompt made of the stored content
\* and its own question, and a successful one returns the text of that call.
C17_AskStateless ==
    /\ [](\A a \in Reqs : IsAsk(a) /\ Done(a) /\ resp[a].status # 404
              => /\ ext[a].model_calls = 1
                 /\ local[a].prompt =
                       PromptHead \o Lookup(documents_db, req[a].document_id).content
                                  \o PromptMid \o req[a].query \o PromptTail
                 /\ resp[a].status = 200
                       => ext[a].model = "ok" /\ resp[a].response = ext[a].reply)
    /\ [][\A a \in Reqs :
              IsAsk(a) /\ pc[a] \in {"pending", "in_model"} /\ pc'[a] # pc[a]
              => /\ documents_db' = documents_db
                 /\ files' = files /\ output' = output /\ issued' = issued
                 /\ \A b \in Reqs \ {a} :
                       local'[b] = local[b] /\ resp'[b] = resp[b] /\ ext'[b] = ext[b]]_vars

C17_Witness ==
    \E a, b \in Reqs :
        /\ a # b
        /\ IsAsk(a) /\ Done(a) /\ IsAsk(b) /\ Done(b)
        /\ req[a].document_id = req[b].document_id /\ req[a].query = req[b].query
        /\ resp[a].status = 200 /\ resp[b].status = 200
        /\ resp[a].response # resp[b].response

\* ------------------------------------------------------------------ C18
IsSignup(r) == req[r].kind = "signup"

\* C18: when create_user returns no user, or a user whose confirmed_at is
\* None, /signup answers 400 with detail "User creation failed."; it answers
\* 500 only when create_user itself raised.
C18_SignupFailureIs400 ==
    \A r \in Reqs : IsSignup(r) /\ Done(r)
        => /\ ext[r].user \in {"no_user", "unconfirmed"}
                => /\ resp[r].status = 400
                   /\ resp[r].detail = <<"User creation failed.">>
           /\ resp[r].status = 500 => ext[r].user = "raised"

====
